---- MODULE Spec2Model ----
(***************************************************************************)
(* Tire force limits (src/core/limits.py): TireState validation, the       *)
(* effective-friction model, the friction-ellipse and combined-slip limit  *)
(* checks and the stability assessment, as a state machine over one        *)
(* TireState object and the TireLimits engine that holds a reference to it.*)
(*                                                                         *)
(* Python floats are modelled as decimal floating-point values with a      *)
(* four-digit mantissa, m * 10^e with 1000 <= |m| <= 9999 (or m = 0),      *)
(* together with the special values inf, -inf and nan.  Every arithmetic   *)
(* operation rounds its result to four significant digits (round half up   *)
(* on the magnitude), overflows to inf above about 1.8e308 and underflows  *)
(* to 0 below about 5e-324, as IEEE doubles do at 53 bits.  An operation   *)
(* that raises a Python exception other than validate's ValueError         *)
(* (ZeroDivisionError, OverflowError, math domain error, TypeError on a    *)
(* complex number) yields the value Raise, which every later operation     *)
(* propagates.                                                             *)
(***************************************************************************)
EXTENDS Integers, Sequences, FiniteSets, TLC

----------------------------------------------------------------------------
(* Python float values *)

Num(m, e) == [k |-> "num", m |-> m, e |-> e]
NaN       == [k |-> "nan", m |-> 0, e |-> 0]
Inf       == [k |-> "inf", m |-> 0, e |-> 0]
NegInf    == [k |-> "ninf", m |-> 0, e |-> 0]
Raise     == [k |-> "raise", m |-> 0, e |-> 0]
Zero      == Num(0, 0)

IAbs(i) == IF i < 0 THEN -i ELSE i
ISgn(i) == IF i < 0 THEN -1 ELSE IF i > 0 THEN 1 ELSE 0

RECURSIVE NormMag(_, _)
NormMag(M, E) ==
    IF M = 0 THEN <<0, 0>>
    ELSE IF M >= 10000 THEN NormMag((M + 5) \div 10, E + 1)
    ELSE IF M < 1000 THEN NormMag(M * 10, E - 1)
    ELSE <<M, E>>

\* a normalised magnitude n with sign s, overflowing to an infinity and
\* underflowing to 0
FlRange(s, n) ==
    IF n[1] = 0 \/ n[2] < -327 THEN Zero
    ELSE IF n[2] > 305 THEN (IF s < 0 THEN NegInf ELSE Inf)
    ELSE Num(s * n[1], n[2])

\* the float nearest to M * 10^E
Fl(M, E) == FlRange(ISgn(M), NormMag(IAbs(M), E))

IsNum(a)  == a.k = "num"
IsZero(a) == a.k = "num" /\ a.m = 0
IsInfinite(a) == a.k \in {"inf", "ninf"}
FSign(a) == IF a.k = "inf" THEN 1 ELSE IF a.k = "ninf" THEN -1 ELSE ISgn(a.m)

FNeg(a) ==
    IF a.k = "inf" THEN NegInf
    ELSE IF a.k = "ninf" THEN Inf
    ELSE IF a.k = "num" THEN Num(-a.m, a.e)
    ELSE a

\* abs(a)
FAbs(a) == IF FSign(a) < 0 THEN FNeg(a) ELSE a

\* a * b
FMul(a, b) ==
    IF a.k = "raise" \/ b.k = "raise" THEN Raise
    ELSE IF a.k = "nan" \/ b.k = "nan" THEN NaN
    ELSE IF IsInfinite(a) \/ IsInfinite(b)
         THEN (IF IsZero(a) \/ IsZero(b) THEN NaN
               ELSE IF FSign(a) * FSign(b) < 0 THEN NegInf ELSE Inf)
    ELSE Fl(a.m * b.m, a.e + b.e)

\* a / b (ZeroDivisionError when b = 0)
FDiv(a, b) ==
    IF a.k = "raise" \/ b.k = "raise" THEN Raise
    ELSE IF IsZero(b) THEN Raise
    ELSE IF a.k = "nan" \/ b.k = "nan" THEN NaN
    ELSE IF IsInfinite(a)
         THEN (IF IsInfinite(b) THEN NaN
               ELSE IF FSign(a) * FSign(b) < 0 THEN NegInf ELSE Inf)
    ELSE IF IsInfinite(b) THEN Zero
    ELSE Fl(ISgn(a.m) * ISgn(b.m) * ((IAbs(a.m) * 100000) \div IAbs(b.m)),
            a.e - b.e - 5)

AddNum(hi, lo) ==
    LET d == hi.e - lo.e
    IN  IF lo.m = 0 THEN hi
        ELSE IF hi.m = 0 THEN lo
        ELSE IF d <= 5 THEN Fl(hi.m * (10 ^ d) + lo.m, lo.e)
        ELSE IF d > 9 THEN hi
        ELSE Fl(hi.m * 100000 + ISgn(lo.m) * (IAbs(lo.m) \div (10 ^ (d - 5))),
                hi.e - 5)

\* a + b
FAdd(a, b) ==
    IF a.k = "raise" \/ b.k = "raise" THEN Raise
    ELSE IF a.k = "nan" \/ b.k = "nan" THEN NaN
    ELSE IF IsInfinite(a)
         THEN (IF IsInfinite(b) /\ a.k # b.k THEN NaN ELSE a)
    ELSE IF IsInfinite(b) THEN b
    ELSE IF a.e >= b.e THEN AddNum(a, b) ELSE AddNum(b, a)

\* a - b
FSub(a, b) == FAdd(a, FNeg(b))

\* comparisons: false whenever an operand is nan
Comparable(a, b) == a.k \notin {"nan", "raise"} /\ b.k \notin {"nan", "raise"}
FOrd(a, b) == IF a = b THEN 0 ELSE FSign(FSub(a, b))
FLt(a, b) == Comparable(a, b) /\ FOrd(a, b) < 0
FLe(a, b) == Comparable(a, b) /\ FOrd(a, b) <= 0
FGt(a, b) == FLt(b, a)
FGe(a, b) == FLe(b, a)
FEq(a, b) == Comparable(a, b) /\ FOrd(a, b) = 0

\* the builtins max(a, b) and min(a, b): the first argument is kept unless
\* the second compares greater (smaller)
PyMax(a, b) ==
    IF a.k = "raise" \/ b.k = "raise" THEN Raise
    ELSE IF FGt(b, a) THEN b ELSE a
PyMin(a, b) ==
    IF a.k = "raise" \/ b.k = "raise" THEN Raise
    ELSE IF FLt(b, a) THEN b ELSE a

RECURSIVE ISqrtIter(_, _)
ISqrtIter(M, x) == IF x * x > M THEN ISqrtIter(M, (x + M \div x) \div 2) ELSE x

\* math.sqrt(a) (ValueError, math domain error, when a < 0)
FSqrt(a) ==
    IF a.k = "raise" THEN Raise
    ELSE IF a.k = "nan" THEN NaN
    ELSE IF a.k = "inf" THEN Inf
    ELSE IF FSign(a) < 0 THEN Raise
    ELSE IF a.m = 0 THEN Zero
    ELSE LET odd == (a.e % 2) = 1
             M   == (IF odd THEN a.m * 10 ELSE a.m) * 10000
             E   == (IF odd THEN a.e - 1 ELSE a.e) - 4
         IN  Fl(ISqrtIter(M, 31623), E \div 2)

\* a ** 2 (OverflowError when the result is out of range)
OverflowError(p) == IF p.k = "inf" THEN Raise ELSE p
FSquare(a) ==
    IF a.k \in {"raise", "nan"} THEN a
    ELSE IF IsInfinite(a) THEN Inf
    ELSE OverflowError(FMul(a, a))

FInt(i) == Fl(i, 0)

\* the integer nearest to a finite float of moderate size
RoundInt(a) ==
    IF a.m = 0 THEN 0
    ELSE IF a.e >= 0 THEN a.m * (10 ^ a.e)
    ELSE IF a.e < -4 THEN 0
    ELSE ISgn(a.m) * ((IAbs(a.m) + (10 ^ (-a.e)) \div 2) \div (10 ^ (-a.e)))

LN2  == Num(6931, -4)
LN10 == Num(2303, -3)

RECURSIVE LnReduce(_, _)
LnReduce(u, n) ==
    IF FGt(u, Num(1414, -3)) THEN LnReduce(FDiv(u, FInt(2)), n + 1)
    ELSE <<u, n>>

\* z + z^3/3 + z^5/5 + z^7/7, with z2 = z * z
AtanhPoly(z, z2) ==
    FMul(z, FAdd(FInt(1), FMul(z2, FAdd(Num(3333, -4),
         FMul(z2, FAdd(Num(2000, -4), FMul(z2, Num(1429, -4))))))))
AtanhSeries(z) == AtanhPoly(z, FMul(z, z))

\* ln(u * 2^n * 10^d) for u in [0.7, 1.42], as 2 atanh((u - 1)/(u + 1))
LnParts(u, n, d) ==
    FAdd(FAdd(FMul(FInt(2),
                   AtanhSeries(FDiv(FSub(u, FInt(1)), FAdd(u, FInt(1))))),
              FMul(FInt(n), LN2)),
         FMul(FInt(d), LN10))
LnReduced(r, d) == LnParts(r[1], r[2], d)

\* natural logarithm of a positive finite float
FLn(a) == LnReduced(LnReduce(Num(a.m, -3), 0), a.e + 3)

\* 1 + q + q^2/2 + ... + q^5/120
ExpPoly(q) ==
    FAdd(FInt(1), FMul(q, FAdd(FInt(1), FMul(FDiv(q, FInt(2)),
         FAdd(FInt(1), FMul(FDiv(q, FInt(3)),
         FAdd(FInt(1), FMul(FDiv(q, FInt(4)),
         FAdd(FInt(1), FDiv(q, FInt(5)))))))))))
Sq(t) == FMul(t, t)

\* e ** y = 10^n * (e ** ((y - n ln 10) / 4)) ^ 4
ExpSplit(y, n) ==
    FMul(Sq(Sq(ExpPoly(FDiv(FSub(y, FMul(FInt(n), LN10)), FInt(4))))),
         Fl(1, n))

\* e ** y for a finite float y
FExp(y) == ExpSplit(y, RoundInt(FDiv(y, LN10)))

\* x ** y for a finite, non-integer y < 0.  A negative x gives a complex
\* number, on which the comparisons of the clamp that follows raise
\* TypeError; x = 0 raises ZeroDivisionError.
PowerOf(x, y) ==
    IF x.k \in {"raise", "nan"} THEN x
    ELSE IF IsInfinite(x) THEN Zero
    ELSE IF FSign(x) <= 0 THEN Raise
    ELSE FExp(FMul(y, FLn(x)))

PI      == Num(3142, -3)
HALF_PI == Num(1571, -3)

\* sin and cos on [0, pi/2], by their Taylor polynomials, with x2 = x * x
SinPoly(x, x2) ==
    FMul(x, FSub(FInt(1), FMul(FDiv(x2, FInt(6)),
         FSub(FInt(1), FMul(FDiv(x2, FInt(20)),
         FSub(FInt(1), FMul(FDiv(x2, FInt(42)),
         FSub(FInt(1), FMul(FDiv(x2, FInt(72)),
         FSub(FInt(1), FDiv(x2, FInt(110))))))))))))
CosPoly(x2) ==
    FSub(FInt(1), FMul(FDiv(x2, FInt(2)),
         FSub(FInt(1), FMul(FDiv(x2, FInt(12)),
         FSub(FInt(1), FMul(FDiv(x2, FInt(30)),
         FSub(FInt(1), FMul(FDiv(x2, FInt(56)),
         FSub(FInt(1), FDiv(x2, FInt(90)))))))))))
SinQ(x) == SinPoly(x, FMul(x, x))
CosQ(x) == CosPoly(FMul(x, x))

\* sin and cos of a in [0, pi]
SinAbs(a) == IF FGt(a, HALF_PI) THEN SinQ(FSub(PI, a)) ELSE SinQ(a)
CosAbs(a) == IF FGt(a, HALF_PI) THEN FNeg(CosQ(FSub(PI, a))) ELSE CosQ(a)

\* math.sin(x), math.cos(x) for -pi <= x <= pi (ValueError on an infinity)
SineOf(x) ==
    IF x.k \in {"raise", "nan"} THEN x
    ELSE IF IsInfinite(x) THEN Raise
    ELSE IF FSign(x) < 0 THEN FNeg(SinAbs(FAbs(x))) ELSE SinAbs(x)
CosineOf(x) ==
    IF x.k \in {"raise", "nan"} THEN x
    ELSE IF IsInfinite(x) THEN Raise
    ELSE CosAbs(FAbs(x))

\* atan(t) for 0 <= t <= 1: two half-angle reductions, then the series
AtanHalf(t) == FDiv(t, FAdd(FInt(1), FSqrt(FAdd(FInt(1), FMul(t, t)))))
AtanPoly(u, u2) ==
    FMul(u, FSub(FInt(1), FMul(u2, FSub(Num(3333, -4),
         FMul(u2, FSub(Num(2000, -4), FMul(u2, Num(1429, -4))))))))
AtanSeries(u) == AtanPoly(u, FMul(u, u))
AtanUnit(t) == FMul(FInt(4), AtanSeries(AtanHalf(AtanHalf(t))))

\* atan of the quotient y / x of two non-negative finite floats, not both 0
AtanPos(y, x) ==
    IF IsZero(y) THEN Zero
    ELSE IF IsZero(x) THEN HALF_PI
    ELSE IF FLe(y, x) THEN AtanUnit(FDiv(y, x))
    ELSE FSub(HALF_PI, AtanUnit(FDiv(x, y)))

\* the angle a of the first quadrant, moved to the quadrant of (x, y)
AtanQuadrant(a, y, x) ==
    IF FSign(x) < 0
    THEN (IF FSign(y) < 0 THEN FNeg(FSub(PI, a)) ELSE FSub(PI, a))
    ELSE (IF FSign(y) < 0 THEN FNeg(a) ELSE a)

\* math.atan2(y, x) for finite y and x
Atan2Of(y, x) ==
    IF y.k = "raise" \/ x.k = "raise" THEN Raise
    ELSE IF ~IsNum(y) \/ ~IsNum(x) THEN NaN
    ELSE IF IsZero(y) /\ IsZero(x) THEN Zero
    ELSE AtanQuadrant(AtanPos(FAbs(y), FAbs(x)), y, x)

\* sqrt(hi^2 + lo^2) for hi >= lo >= 0
HypotOrdered(hi, lo) ==
    IF IsZero(hi) THEN Zero
    ELSE FMul(hi, FSqrt(FAdd(FInt(1), Sq(FDiv(lo, hi)))))
HypotAbs(ax, ay) ==
    IF FGe(ax, ay) THEN HypotOrdered(ax, ay) ELSE HypotOrdered(ay, ax)

\* math.hypot(x, y)
FHypot(x, y) ==
    IF x.k = "raise" \/ y.k = "raise" THEN Raise
    ELSE IF IsInfinite(x) \/ IsInfinite(y) THEN Inf
    ELSE IF x.k = "nan" \/ y.k = "nan" THEN NaN
    ELSE HypotAbs(FAbs(x), FAbs(y))

\* math.radians(8.0) and math.degrees(x)
RADIANS_8  == Num(1396, -4)
FDegrees(x) == FMul(x, FDiv(FInt(180), PI))

----------------------------------------------------------------------------
(* src/core/limits.py *)

TireType == {"street", "performance", "race_slick", "rain", "winter"}

\* FrictionModels.BASE_MU
\* a table with one coefficient per compound for both axes
BASE_MU_Isotropic ==
    [street      |-> [mu_x |-> Num(9000, -4), mu_y |-> Num(9000, -4), Fz_ref |-> FInt(4000)],
     performance |-> [mu_x |-> Num(1100, -3), mu_y |-> Num(1100, -3), Fz_ref |-> FInt(4000)],
     race_slick  |-> [mu_x |-> Num(1400, -3), mu_y |-> Num(1400, -3), Fz_ref |-> FInt(3500)],
     rain        |-> [mu_x |-> Num(7000, -4), mu_y |-> Num(7000, -4), Fz_ref |-> FInt(4000)],
     winter      |-> [mu_x |-> Num(6500, -4), mu_y |-> Num(6500, -4), Fz_ref |-> FInt(4000)]]

BASE_MU ==
    [street      |-> [mu_x |-> Num(9000, -4), mu_y |-> Num(8500, -4), Fz_ref |-> FInt(4000)],
     performance |-> [mu_x |-> Num(1100, -3), mu_y |-> Num(1050, -3), Fz_ref |-> FInt(4000)],
     race_slick  |-> [mu_x |-> Num(1400, -3), mu_y |-> Num(1350, -3), Fz_ref |-> FInt(3500)],
     rain        |-> [mu_x |-> Num(7000, -4), mu_y |-> Num(6500, -4), Fz_ref |-> FInt(4000)],
     winter      |-> [mu_x |-> Num(6500, -4), mu_y |-> Num(6000, -4), Fz_ref |-> FInt(4000)]]

\* FrictionModels.LOAD_SENSITIVITY
LOAD_SENSITIVITY ==
    [street      |-> [exp_x |-> Num(-1000, -4), exp_y |-> Num(-1200, -4)],
     performance |-> [exp_x |-> Num(-1500, -4), exp_y |-> Num(-1800, -4)],
     race_slick  |-> [exp_x |-> Num(-2000, -4), exp_y |-> Num(-2500, -4)],
     rain        |-> [exp_x |-> Num(-8000, -5), exp_y |-> Num(-1000, -4)],
     winter      |-> [exp_x |-> Num(-5000, -5), exp_y |-> Num(-7000, -5)]]

\* a compound that keeps gaining grip above the optimal temperature
TEMP_PARAMS_HotGrip ==
    [opt_temp |-> FInt(80), cold_temp |-> Zero, hot_temp |-> FInt(120),
     cold_mu |-> Num(6000, -4), hot_mu |-> Num(1200, -3)]

\* FrictionModels.TEMP_PARAMS
TEMP_PARAMS ==
    [opt_temp |-> FInt(80), cold_temp |-> Zero, hot_temp |-> FInt(120),
     cold_mu |-> Num(6000, -4), hot_mu |-> Num(8000, -4)]

\* a wear that costs up to 40 %
WEAR_SENSITIVITY_Steep == Num(4000, -4)

WEAR_SENSITIVITY     == Num(2000, -4)
PRESSURE_OPT         == FInt(200)
PRESSURE_SENSITIVITY == Num(1000, -6)

\* the attributes of class FrictionModels, which every engine reads through
\* self.models
FrictionModels ==
    [BASE_MU |-> BASE_MU, LOAD_SENSITIVITY |-> LOAD_SENSITIVITY,
     TEMP_PARAMS |-> TEMP_PARAMS, WEAR_SENSITIVITY |-> WEAR_SENSITIVITY,
     PRESSURE_OPT |-> PRESSURE_OPT,
     PRESSURE_SENSITIVITY |-> PRESSURE_SENSITIVITY]

\* the methods of TireLimits that evaluate
EvaluationMethods ==
    {"get_effective_friction", "friction_ellipse_limit",
     "combined_slip_limit", "stability_assessment"}

\* a TireLimits object: self.state and self.models
TireLimits(state, models) == [state |-> state, models |-> models]

\* the literals 1.0 and 1e-9
ONE == FInt(1)
EPS == Num(1000, -12)

\* TireState.validate: "True", or the ValueError it raises
validate(self) ==
    IF FLe(self.vertical_load, Zero)
    THEN "ValueError: Vertical load must be positive"
    ELSE IF ~(FLe(FInt(-50), self.temperature) /\ FLe(self.temperature, FInt(150)))
    THEN "ValueError: Temperature out of range"
    ELSE IF ~(FLe(Zero, self.wear) /\ FLe(self.wear, ONE))
    THEN "ValueError: Wear must be between 0 and 1"
    ELSE IF ~(FLe(FInt(100), self.pressure) /\ FLe(self.pressure, FInt(400)))
    THEN "ValueError: Pressure out of range"
    ELSE "True"

\* the text of the ValueError that validate raises: the words of the
\* f-string, the value it interpolates and the unit that follows it
Message(words, value, unit) == [words |-> words, value |-> value, unit |-> unit]

NoMessage == Message(<<>>, Zero, "")

ValueErrorMessage(out, self) ==
    CASE out = "ValueError: Vertical load must be positive" ->
             Message(<<"Vertical", "load", "must", "be", "positive", "got">>,
                     self.vertical_load, "N")
      [] out = "ValueError: Temperature out of range" ->
             Message(<<"Temperature", "out", "of", "range">>,
                     self.temperature, "degC")
      [] out = "ValueError: Wear must be between 0 and 1" ->
             Message(<<"Wear", "must", "be", "between", "0", "and", "1", "got">>,
                     self.wear, "")
      [] out = "ValueError: Pressure out of range" ->
             Message(<<"Pressure", "out", "of", "range">>,
                     self.pressure, "kPa")
      [] OTHER -> NoMessage

\* TireLimits._calculate_temp_factor
calculate_temp_factor(self) ==
    LET params == self.models.TEMP_PARAMS
        temp   == self.state.temperature
    IN  IF FLe(temp, params.opt_temp)
        THEN IF FLe(temp, params.cold_temp)
             THEN params.cold_mu
             ELSE LET t_norm == FDiv(FSub(temp, params.cold_temp),
                                     FSub(params.opt_temp, params.cold_temp))
                  IN  FAdd(params.cold_mu,
                           FMul(FSub(ONE, params.cold_mu), t_norm))
        ELSE IF FGe(temp, params.hot_temp)
             THEN params.hot_mu
             ELSE LET t_norm == FDiv(FSub(temp, params.opt_temp),
                                     FSub(params.hot_temp, params.opt_temp))
                  IN  FSub(ONE, FMul(FSub(ONE, params.hot_mu), t_norm))

\* max(lo, min(hi, x))
Clamp(lo, hi, x) == PyMax(lo, PyMin(hi, x))

\* the product of the factors, returned as it is
ClampMu_Unclamped(mu) == mu

\* the clamp of the effective coefficients, max(0.1, min(2.0, mu))
ClampMu(mu) == Clamp(Num(1000, -4), FInt(2), mu)

\* an exception was raised while one of the values vs was computed
AnyRaise(vs) == Raise \in vs

\* get_effective_friction, its return statement
FrictionResult(base, load_ratio, temp_factor, wear_factor, pressure_factor, mu_x_eff, mu_y_eff) ==
    [exc |-> AnyRaise({mu_x_eff, mu_y_eff}),
     mu_x |-> ClampMu(mu_x_eff),
     mu_y |-> ClampMu(mu_y_eff),
     load_ratio |-> load_ratio,
     temp_factor |-> temp_factor,
     wear_factor |-> wear_factor,
     pressure_factor |-> pressure_factor,
     base_mu_x |-> base.mu_x,
     base_mu_y |-> base.mu_y,
     Fz_ref |-> base.Fz_ref]

\* mu_load * temp_factor * wear_factor * pressure_factor
EffectiveMu(mu_load, temp_factor, wear_factor, pressure_factor) ==
    FMul(FMul(FMul(mu_load, temp_factor), wear_factor), pressure_factor)

\* the vertical loads of the TireState objects of this development
TINY == Num(1000, -13)
LoadValues == {NaN, Zero, TINY, Num(5000, -13), FInt(4000), Num(1000, 27),
               Inf}

\* load_ratio ** exp for those loads and the tables as they are defined,
\* each power computed once
PowArgs ==
    UNION {{<<FDiv(Fz, BASE_MU[t].Fz_ref), LOAD_SENSITIVITY[t].exp_x>>,
            <<FDiv(Fz, BASE_MU[t].Fz_ref), LOAD_SENSITIVITY[t].exp_y>>} :
           Fz \in LoadValues \cup {FInt(7000)}, t \in TireType}
PowMemo == [p \in PowArgs |-> PowerOf(p[1], p[2])]

\* load_ratio ** exp
FPow(x, y) ==
    IF <<x, y>> \in PowArgs THEN PowMemo[<<x, y>>] ELSE PowerOf(x, y)

\* get_effective_friction, from the load ratio and the three factors
FrictionFromFactors(base, load_exp, load_ratio, temp_factor, wear_factor, pressure_factor) ==
    FrictionResult(base, load_ratio, temp_factor, wear_factor, pressure_factor,
        EffectiveMu(FMul(base.mu_x, FPow(load_ratio, load_exp.exp_x)),
                    temp_factor, wear_factor, pressure_factor),
        EffectiveMu(FMul(base.mu_y, FPow(load_ratio, load_exp.exp_y)),
                    temp_factor, wear_factor, pressure_factor))

WearFactor(self) ==
    FSub(ONE, FMul(self.models.WEAR_SENSITIVITY, self.state.wear))

PressureFactor(self) ==
    Clamp(Num(8000, -4), ONE,
          FSub(ONE, FMul(self.models.PRESSURE_SENSITIVITY,
                         FAbs(FSub(self.state.pressure,
                                   self.models.PRESSURE_OPT)))))

\* get_effective_friction, after the two table lookups
FrictionFromTables(base, load_exp, self) ==
    FrictionFromFactors(base, load_exp,
                        FDiv(self.state.vertical_load, base.Fz_ref),
                        calculate_temp_factor(self),
                        WearFactor(self),
                        PressureFactor(self))

\* TireLimits.get_effective_friction; exc: the call raised (KeyError on an
\* unknown compound, ZeroDivisionError or TypeError in the load power law)
get_effective_friction(self) ==
    IF self.state.type \notin DOMAIN self.models.BASE_MU
    THEN [exc |-> TRUE, mu_x |-> Raise, mu_y |-> Raise, load_ratio |-> Raise,
          temp_factor |-> Raise, wear_factor |-> Raise,
          pressure_factor |-> Raise, base_mu_x |-> Raise,
          base_mu_y |-> Raise, Fz_ref |-> Raise]
    ELSE FrictionFromTables(self.models.BASE_MU[self.state.type],
                            self.models.LOAD_SENSITIVITY[self.state.type],
                            self)

\* (F / F_max) ** 2, or the value set when F_max is numerically zero
\* (friction_ellipse_limit tests abs(F_max) < 1e-9)
\* a degenerate maximum that makes the ratio unbounded whatever the force
EllipseRatioSq_AlwaysUnbounded(F, F_max) ==
    IF FLt(FAbs(F_max), EPS) THEN Inf ELSE FSquare(FDiv(F, F_max))

EllipseRatioSq(F, F_max) ==
    IF FLt(FAbs(F_max), EPS)
    THEN (IF FGt(FAbs(F), EPS) THEN Inf ELSE Zero)
    ELSE FSquare(FDiv(F, F_max))

\* ellipse_value <= 1.0
\* a limit that excludes the ellipse itself
WithinLimit_Strict(value) == FLt(value, ONE)

\* a limit of twice the ellipse
WithinLimit_Doubled(value) == FLe(value, FInt(2))

WithinLimit(value) == FLe(value, ONE)

\* abs(F) / F_max if abs(F_max) > 1e-9 else inf
AxisUsage(F, F_max) ==
    IF FGt(FAbs(F_max), EPS) THEN FDiv(FAbs(F), F_max) ELSE Inf

\* friction_ellipse_limit, its return statement
EllipseResult(mu_exc, Fx, Fy, Fx_max, Fy_max, fx_ratio_sq, fy_ratio_sq, ellipse_value, usage) ==
    [exc |-> mu_exc \/ AnyRaise({Fx_max, Fy_max, fx_ratio_sq, fy_ratio_sq,
                                 ellipse_value, usage,
                                 AxisUsage(Fx, Fx_max), AxisUsage(Fy, Fy_max)}),
     within_limit |-> WithinLimit(ellipse_value),
     usage |-> usage,
     ellipse_value |-> ellipse_value,
     Fx_usage |-> AxisUsage(Fx, Fx_max),
     Fy_usage |-> AxisUsage(Fy, Fy_max),
     Fx_max |-> Fx_max,
     Fy_max |-> Fy_max,
     model |-> "ellipse"]

\* the sum of the two squared ratios and its root, both inf when a ratio is
EllipseFromRatios(mu_exc, Fx, Fy, Fx_max, Fy_max, fx_ratio_sq, fy_ratio_sq) ==
    IF FEq(fx_ratio_sq, Inf) \/ FEq(fy_ratio_sq, Inf)
    THEN EllipseResult(mu_exc, Fx, Fy, Fx_max, Fy_max, fx_ratio_sq,
                       fy_ratio_sq, Inf, Inf)
    ELSE EllipseResult(mu_exc, Fx, Fy, Fx_max, Fy_max, fx_ratio_sq,
                       fy_ratio_sq, FAdd(fx_ratio_sq, fy_ratio_sq),
                       FSqrt(FAdd(fx_ratio_sq, fy_ratio_sq)))

EllipseFromMax(mu_exc, Fx, Fy, Fx_max, Fy_max) ==
    EllipseFromRatios(mu_exc, Fx, Fy, Fx_max, Fy_max,
                      EllipseRatioSq(Fx, Fx_max), EllipseRatioSq(Fy, Fy_max))

EllipseFromMu(mu, Fz, Fx, Fy) ==
    EllipseFromMax(mu.exc, Fx, Fy, FMul(mu.mu_x, Fz), FMul(mu.mu_y, Fz))

\* TireLimits.friction_ellipse_limit
friction_ellipse_limit(self, Fx, Fy) ==
    EllipseFromMu(get_effective_friction(self), self.state.vertical_load,
                  Fx, Fy)

\* (F / F_max_eff) ** 2 of combined_slip_limit, which tests F_max_eff < 1e-9
CombinedRatioSq(F, F_max_eff) ==
    IF FLt(F_max_eff, EPS)
    THEN (IF FGt(FAbs(F), EPS) THEN Inf ELSE Zero)
    ELSE FSquare(FDiv(F, F_max_eff))

\* the force pairs (Fx, Fy) the callers pass
ForcePairs ==
    {<<Zero, Zero>>, <<FInt(1), FInt(1)>>, <<FInt(1500), FInt(2000)>>,
     <<FInt(4400), Zero>>, <<Zero, FInt(-4200)>>, <<FInt(3740), Zero>>,
     <<FInt(4000), FInt(3500)>>, <<FInt(4400), FInt(120)>>,
     <<Num(5000, -13), Zero>>, <<EPS, EPS>>, <<Num(1000, 197), Zero>>}

\* slip angles from 0 to 1 rad, with 8 and 24 degrees
SlipGrid == {Zero, Num(5000, -5), Num(1000, -4), Num(1200, -4), RADIANS_8,
             Num(2000, -4), Num(3000, -4), Num(4189, -4), Num(5000, -4),
             ONE}

\* math.atan2(Fy, Fx) for those force pairs, each angle computed once
Atan2Memo == [F \in ForcePairs |-> Atan2Of(F[2], F[1])]
FAtan2(y, x) ==
    IF <<x, y>> \in ForcePairs THEN Atan2Memo[<<x, y>>] ELSE Atan2Of(y, x)

\* the arguments of math.sin and math.cos for those force pairs and slip
\* angles, and the sine and cosine of each, computed once
TrigArgs ==
    {Atan2Memo[F] : F \in ForcePairs} \cup {HALF_PI, FNeg(HALF_PI)}
    \cup {FDiv(FMul(PI, a), FMul(FInt(2), RADIANS_8)) :
              a \in {g \in SlipGrid : FLe(g, RADIANS_8)}}
SinMemo == [a \in TrigArgs |-> SineOf(a)]
CosMemo == [a \in TrigArgs |-> CosineOf(a)]
FSin(x) == IF x \in TrigArgs THEN SinMemo[x] ELSE SineOf(x)
FCos(x) == IF x \in TrigArgs THEN CosMemo[x] ELSE CosineOf(x)

\* a slip-angle effect that does not decay beyond the optimal slip angle
SlipEffect_NoDecay(slip_angle, optimal_slip) ==
    IF FLe(slip_angle, optimal_slip)
    THEN FSin(FDiv(FMul(PI, slip_angle), FMul(FInt(2), optimal_slip)))
    ELSE ONE

\* the slip-angle effect on lateral force, before its clamp
SlipEffect(slip_angle, optimal_slip) ==
    IF FLe(slip_angle, optimal_slip)
    THEN FSin(FDiv(FMul(PI, slip_angle), FMul(FInt(2), optimal_slip)))
    ELSE FSub(ONE, FDiv(FMul(Num(2000, -4), FSub(slip_angle, optimal_slip)),
                        optimal_slip))

\* slip_factor
SlipFactor(self) ==
    Clamp(Num(6000, -4), ONE,
          SlipEffect(FAbs(self.state.slip_angle), RADIANS_8))

\* max(0.5, min(1.0, reduction))
\* a reduction that follows 1 - coupling * usage below 0.5
ClampReduction_Unclamped(reduction) == reduction

ClampReduction(reduction) == Clamp(Num(5000, -4), ONE, reduction)

\* a coupling factor used as it is given
ClampCoupling_Unclamped(coupling_factor) == coupling_factor

\* max(0.0, min(0.5, coupling_factor))
ClampCoupling(coupling_factor) == Clamp(Zero, Num(5000, -4), coupling_factor)

\* abs(F) / F_max_nom if F_max_nom > 1e-9 else 0.0
NominalUsage(F, F_max_nom) ==
    IF FGt(F_max_nom, EPS) THEN FDiv(FAbs(F), F_max_nom) ELSE Zero

\* combined_slip_limit, its return statement
CombinedResult(exc, lateral_reduction, longitudinal_reduction, slip_factor, Fx_max_eff, Fy_max_eff, fx_ratio_sq, fy_ratio_sq, usage_sq, usage) ==
    [exc |-> exc \/ AnyRaise({lateral_reduction, longitudinal_reduction,
                              slip_factor, Fx_max_eff, Fy_max_eff,
                              fx_ratio_sq, fy_ratio_sq, usage_sq, usage}),
     within_limit |-> WithinLimit(usage_sq),
     usage |-> usage,
     Fx_max_effective |-> Fx_max_eff,
     Fy_max_effective |-> Fy_max_eff,
     lateral_reduction |-> lateral_reduction,
     longitudinal_reduction |-> longitudinal_reduction,
     slip_factor |-> slip_factor,
     model |-> "combined_slip"]

CombinedFromRatios(exc, lateral_reduction, longitudinal_reduction, slip_factor, Fx_max_eff, Fy_max_eff, fx_ratio_sq, fy_ratio_sq) ==
    IF FEq(fx_ratio_sq, Inf) \/ FEq(fy_ratio_sq, Inf)
    THEN CombinedResult(exc, lateral_reduction, longitudinal_reduction,
                        slip_factor, Fx_max_eff, Fy_max_eff,
                        fx_ratio_sq, fy_ratio_sq, Inf, Inf)
    ELSE CombinedResult(exc, lateral_reduction, longitudinal_reduction,
                        slip_factor, Fx_max_eff, Fy_max_eff,
                        fx_ratio_sq, fy_ratio_sq,
                        FAdd(fx_ratio_sq, fy_ratio_sq),
                        FSqrt(FAdd(fx_ratio_sq, fy_ratio_sq)))

\* the effective maxima: Fx_max_nom * longitudinal_reduction and
\* Fy_max_nom * lateral_reduction * slip_factor
CombinedFromEffective(exc, Fx, Fy, lateral_reduction, longitudinal_reduction, slip_factor, Fx_max_eff, Fy_max_eff) ==
    CombinedFromRatios(exc, lateral_reduction, longitudinal_reduction,
                       slip_factor, Fx_max_eff, Fy_max_eff,
                       CombinedRatioSq(Fx, Fx_max_eff),
                       CombinedRatioSq(Fy, Fy_max_eff))

CombinedFromReductions(exc, Fx, Fy, Fx_max_nom, Fy_max_nom, lateral_reduction, longitudinal_reduction, slip_factor) ==
    CombinedFromEffective(exc \/ AnyRaise({Fx_max_nom, Fy_max_nom}), Fx, Fy,
        lateral_reduction, longitudinal_reduction, slip_factor,
        FMul(Fx_max_nom, longitudinal_reduction),
        FMul(FMul(Fy_max_nom, lateral_reduction), slip_factor))

\* a coupling in which each force reduces its own capacity
CombinedFromNominal_SameAxis(exc, Fx, Fy, Fx_max_nom, Fy_max_nom, coupling, slip_factor) ==
    CombinedFromReductions(exc, Fx, Fy, Fx_max_nom, Fy_max_nom,
        ClampReduction(FSub(ONE, FMul(coupling,
                                      NominalUsage(Fy, Fy_max_nom)))),
        ClampReduction(FSub(ONE, FMul(coupling,
                                      NominalUsage(Fx, Fx_max_nom)))),
        slip_factor)

\* bidirectional coupling: each force reduces the opposite capacity
CombinedFromNominal(exc, Fx, Fy, Fx_max_nom, Fy_max_nom, coupling, slip_factor) ==
    CombinedFromReductions(exc, Fx, Fy, Fx_max_nom, Fy_max_nom,
        ClampReduction(FSub(ONE, FMul(coupling,
                                      NominalUsage(Fx, Fx_max_nom)))),
        ClampReduction(FSub(ONE, FMul(coupling,
                                      NominalUsage(Fy, Fy_max_nom)))),
        slip_factor)

CombinedFromMu(mu, self, Fx, Fy, coupling_factor) ==
    CombinedFromNominal(mu.exc, Fx, Fy,
                        FMul(mu.mu_x, self.state.vertical_load),
                        FMul(mu.mu_y, self.state.vertical_load),
                        ClampCoupling(coupling_factor),
                        SlipFactor(self))

\* TireLimits.combined_slip_limit
combined_slip_limit(self, Fx, Fy, coupling_factor) ==
    CombinedFromMu(get_effective_friction(self), self, Fx, Fy,
                   coupling_factor)

\* the status branch of stability_assessment
\* a warning that starts at the threshold itself
Status_WarningAtThreshold(ellipse_check, warning_threshold) ==
    IF ellipse_check.within_limit
    THEN IF FGe(ellipse_check.usage, warning_threshold)
         THEN "WARNING"
         ELSE "STABLE"
    ELSE "UNSTABLE"

\* a status without the warning band
Status_NoWarning(ellipse_check, warning_threshold) ==
    IF ellipse_check.within_limit THEN "STABLE" ELSE "UNSTABLE"

Status(ellipse_check, warning_threshold) ==
    IF ellipse_check.within_limit
    THEN IF FGt(ellipse_check.usage, warning_threshold)
         THEN "WARNING"
         ELSE "STABLE"
    ELSE "UNSTABLE"

StatusAction(status) ==
    IF status = "WARNING" THEN "APPROACHING LIMIT"
    ELSE IF status = "STABLE" THEN "OK"
    ELSE "REDUCE FORCE"

\* a margin of 0 % whenever the maximum force is trivial
MarginPct_ZeroWhenTrivial(margin, max_force, current_force) ==
    IF FGt(max_force, EPS) THEN FMul(FDiv(margin, max_force), FInt(100))
    ELSE Zero

\* (margin / max_force) * 100 if max_force > 1e-9, else 0.0 or -100.0
MarginPct(margin, max_force, current_force) ==
    IF FGt(max_force, EPS) THEN FMul(FDiv(margin, max_force), FInt(100))
    ELSE IF FLt(current_force, EPS) THEN Zero
    ELSE FInt(-100)

\* stability_assessment, its return statement
StabilityResult(exc, status, ellipse_check, combined_check, current_angle, max_force, current_force, margin) ==
    [exc |-> exc \/ ellipse_check.exc \/ combined_check.exc
             \/ AnyRaise({current_angle, max_force, current_force, margin,
                          MarginPct(margin, max_force, current_force)}),
     status |-> status,
     action |-> StatusAction(status),
     ellipse_usage |-> ellipse_check.usage,
     combined_usage |-> combined_check.usage,
     force_margin_N |-> margin,
     force_margin_pct |-> MarginPct(margin, max_force, current_force),
     current_angle_deg |-> FDegrees(current_angle),
     max_force_at_angle |-> max_force]

StabilityFromForces(exc, status, ellipse_check, combined_check, current_angle, max_force, current_force) ==
    StabilityResult(exc, status, ellipse_check, combined_check, current_angle,
                    max_force, current_force, FSub(max_force, current_force))

\* Fz / sqrt(term1 + term2), or 0.0 when a term is inf or the root is
\* numerically zero
MaxForceFromDenom(Fz, denom) ==
    IF FGt(denom, EPS) THEN FDiv(Fz, denom) ELSE Zero
MaxForce(Fz, term1, term2) ==
    IF FEq(term1, Inf) \/ FEq(term2, Inf) THEN Zero
    ELSE MaxForceFromDenom(Fz, FSqrt(FAdd(term1, term2)))

\* (cos_theta / mu_x) ** 2 if mu_x > 1e-9 else inf
AngleTerm(c, mu) == IF FGt(mu, EPS) THEN FSquare(FDiv(c, mu)) ELSE Inf

StabilityFromTerms(exc, status, ellipse_check, combined_check, Fz, Fx, Fy, current_angle, term1, term2) ==
    StabilityFromForces(exc \/ AnyRaise({term1, term2}), status,
                        ellipse_check, combined_check, current_angle,
                        MaxForce(Fz, term1, term2), FHypot(Fx, Fy))

StabilityFromAngle(status, ellipse_check, combined_check, mu, Fz, Fx, Fy, current_angle) ==
    StabilityFromTerms(mu.exc, status, ellipse_check, combined_check, Fz,
                       Fx, Fy, current_angle,
                       AngleTerm(FCos(current_angle), mu.mu_x),
                       AngleTerm(FSin(current_angle), mu.mu_y))

\* math.atan2(Fy, Fx) if abs(Fx) > 1e-9 else math.copysign(math.pi/2, Fy)
CurrentAngle(Fx, Fy) ==
    IF FGt(FAbs(Fx), EPS) THEN FAtan2(Fy, Fx)
    ELSE IF FSign(Fy) < 0 THEN FNeg(HALF_PI) ELSE HALF_PI

\* a status taken from the combined-slip check
StabilityFromChecks_CombinedStatus(ellipse_check, combined_check, mu, Fz, Fx, Fy, warning_threshold) ==
    StabilityFromAngle(Status(combined_check, warning_threshold),
                       ellipse_check, combined_check, mu, Fz, Fx, Fy,
                       CurrentAngle(Fx, Fy))

StabilityFromChecks(ellipse_check, combined_check, mu, Fz, Fx, Fy, warning_threshold) ==
    StabilityFromAngle(Status(ellipse_check, warning_threshold),
                       ellipse_check, combined_check, mu, Fz, Fx, Fy,
                       CurrentAngle(Fx, Fy))

\* TireLimits.stability_assessment: the ellipse check, the combined-slip
\* check with coupling_factor=0.3, the status, then the force margin from a
\* further call of get_effective_friction
stability_assessment(self, Fx, Fy, warning_threshold) ==
    StabilityFromChecks(friction_ellipse_limit(self, Fx, Fy),
                        combined_slip_limit(self, Fx, Fy, Num(3000, -4)),
                        get_effective_friction(self),
                        self.state.vertical_load, Fx, Fy, warning_threshold)

----------------------------------------------------------------------------
(* The caller's TireState object, the engine built on it, and the calls *)

\* how many times a field of the TireState object is reassigned
MaxSets == 1
\* the sweep of the force magnitude: steps of 1/SweepDiv of the friction
\* limit, up to MaxSweep steps
SweepDiv == 8
MaxSweep == 9

TireStateOf(load, slip, temp, wear, pressure, type) ==
    [vertical_load |-> load, slip_ratio |-> Zero, slip_angle |-> slip,
     temperature |-> temp, wear |-> wear, pressure |-> pressure,
     type |-> type]

TypeValues     == TireType \cup {"unknown"}
TempValues     == {NaN, FInt(-51), FInt(-50), FInt(100), FInt(150), FInt(151)}
WearValues     == {FNeg(TINY), Zero, ONE, FInt(2)}
PressureValues == {FInt(99), FInt(100), FInt(400), FInt(401)}
SlipValues     == {Zero, RADIANS_8}

\* the TireState objects the callers start from: the reference conditions
\* of the performance compound, and a worn, cool, over-inflated race slick
ReferenceTire == TireStateOf(FInt(4000), Num(1000, -4), FInt(80), Zero,
                             FInt(200), "performance")
UsedTire      == TireStateOf(FInt(7000), Num(-3000, -4), FInt(40),
                             Num(5000, -4), FInt(400), "race_slick")

FieldValues ==
    [vertical_load |-> LoadValues, temperature |-> TempValues,
     wear |-> WearValues, pressure |-> PressureValues,
     slip_angle |-> SlipValues, type |-> TypeValues]

CouplingValues  == {Num(-1000, -4), Zero, Num(3000, -4), Num(5000, -4), ONE}
ThresholdValues == {Num(8500, -4), Num(5000, -4), ONE, Num(-1000, -4)}

\* directions of a sweep, as fractions of (Fx_max, Fy_max)
SweepDirs == {<<ONE, Zero>>, <<Num(6000, -4), Num(-8000, -4)>>}
SweepThresholds == {Num(8500, -4), Num(5000, -4)}

NoCall  == [op |-> "none"]
NoSweep == [on |-> FALSE]
\* no energy recovery system
NoErs   == [on |-> FALSE]

\* how many execution contexts call the engine at the same time
NCtx == 2
Contexts == 1..NCtx
IdleCtx == [pc |-> "idle"]

\* tire: the caller's TireState object; engine: a TireLimits object built
\* on it exists; models: the attributes of class FrictionModels; last: the
\* call just made and what it gave; sweep: a sweep of the force magnitude;
\* nset: the number of field assignments so far
\* ctx: the execution contexts that are inside a method of the engine,
\* each with its position and its local variables
VARIABLES tire, engine, models, nset, last, sweep, ctx, ers
vars == <<tire, engine, models, nset, last, sweep, ctx, ers>>

\* the engine as its methods see it
Self == TireLimits(tire, models)

Init ==
    /\ tire \in {ReferenceTire, UsedTire}
    /\ engine = FALSE
    /\ models = FrictionModels
    /\ nset = 0
    /\ last = NoCall
    /\ sweep = NoSweep
    /\ ctx = [c \in Contexts |-> IdleCtx]
    /\ ers = NoErs

\* the caller assigns a field of the TireState object; the engine, when it
\* exists, holds the same object (self.state = tire_state)
SetField ==
    /\ last = NoCall
    /\ sweep = NoSweep
    /\ nset < MaxSets
    /\ \E f \in DOMAIN FieldValues : \E v \in FieldValues[f] :
          /\ tire[f] # v
          /\ tire' = [tire EXCEPT ![f] = v]
    /\ nset' = nset + 1
    /\ UNCHANGED <<ers, ctx, models, engine, last, sweep>>

\* tire.validate()
Validate ==
    /\ last = NoCall
    /\ sweep = NoSweep
    /\ last' = [op |-> "validate", state |-> tire, out |-> validate(tire),
                msg |-> ValueErrorMessage(validate(tire), tire)]
    /\ UNCHANGED <<ers, ctx, models, tire, engine, nset, sweep>>

\* TireLimits(tire): __init__ validates, then keeps the reference
Construct ==
    /\ last = NoCall
    /\ sweep = NoSweep
    /\ ~engine
    /\ last' = [op |-> "TireLimits", state |-> tire, out |-> validate(tire),
                msg |-> ValueErrorMessage(validate(tire), tire)]
    /\ engine' = (last'.out = "True")
    /\ UNCHANGED <<ers, ctx, models, tire, nset, sweep>>

\* a get_effective_friction that leaves a simplified table behind
GetEffectiveFriction_RewritingTable ==
    /\ last = NoCall
    /\ sweep = NoSweep
    /\ engine
    /\ last' = [op |-> "get_effective_friction", state |-> tire,
                res |-> get_effective_friction(Self)]
    /\ models' = [models EXCEPT !.BASE_MU = BASE_MU_Isotropic]
    /\ UNCHANGED <<ers, ctx, tire, engine, nset, sweep>>

GetEffectiveFriction ==
    /\ last = NoCall
    /\ sweep = NoSweep
    /\ engine
    /\ last' = [op |-> "get_effective_friction", state |-> tire,
                res |-> get_effective_friction(Self)]
    /\ UNCHANGED <<ers, ctx, models, tire, engine, nset, sweep>>

\* a friction_ellipse_limit that writes the slip ratio it was called at
FrictionEllipseLimit_WritingState ==
    /\ last = NoCall
    /\ sweep = NoSweep
    /\ engine
    /\ \E F \in ForcePairs :
          last' = [op |-> "friction_ellipse_limit", state |-> tire,
                   Fx |-> F[1], Fy |-> F[2],
                   res |-> friction_ellipse_limit(Self, F[1], F[2])]
    /\ tire' = [tire EXCEPT !.slip_ratio = ONE]
    /\ UNCHANGED <<ers, ctx, models, engine, nset, sweep>>

FrictionEllipseLimit ==
    /\ last = NoCall
    /\ sweep = NoSweep
    /\ engine
    /\ \E F \in ForcePairs :
          last' = [op |-> "friction_ellipse_limit", state |-> tire,
                   Fx |-> F[1], Fy |-> F[2],
                   res |-> friction_ellipse_limit(Self, F[1], F[2])]
    /\ UNCHANGED <<ers, ctx, models, tire, engine, nset, sweep>>

CombinedSlipLimit ==
    /\ last = NoCall
    /\ sweep = NoSweep
    /\ engine
    /\ \E F \in ForcePairs : \E c \in CouplingValues :
          last' = [op |-> "combined_slip_limit", state |-> tire,
                   Fx |-> F[1], Fy |-> F[2], coupling_factor |-> c,
                   res |-> combined_slip_limit(Self, F[1], F[2], c)]
    /\ UNCHANGED <<ers, ctx, models, tire, engine, nset, sweep>>

StabilityAssessment ==
    /\ last = NoCall
    /\ sweep = NoSweep
    /\ engine
    /\ \E F \in ForcePairs : \E w \in ThresholdValues :
          last' = [op |-> "stability_assessment", state |-> tire,
                   Fx |-> F[1], Fy |-> F[2], warning_threshold |-> w,
                   res |-> stability_assessment(Self, F[1], F[2], w)]
    /\ UNCHANGED <<ers, ctx, models, tire, engine, nset, sweep>>

\* the caller takes the result
Return ==
    /\ last # NoCall
    /\ last' = NoCall
    /\ UNCHANGED <<ers, ctx, models, tire, engine, nset, sweep>>

\* the force at step t of a sweep along direction dir: the fraction
\* t / SweepDiv of the maxima that friction_ellipse_limit reports
ForceAt(lim, dir, frac) ==
    <<FMul(FMul(lim.Fx_max, dir[1]), frac),
      FMul(FMul(lim.Fy_max, dir[2]), frac)>>
SweepForce(self, dir, t) ==
    ForceAt(friction_ellipse_limit(self, Zero, Zero), dir,
            FDiv(FInt(t), FInt(SweepDiv)))

StatusOf(r) == IF r.exc THEN "raised" ELSE r.status
StatusAt(self, F, w) ==
    StatusOf(stability_assessment(self, F[1], F[2], w))
SweepStatus(self, dir, w, t) == StatusAt(self, SweepForce(self, dir, t), w)

\* a caller starts raising the force from 0 along a fixed direction
StartSweep ==
    /\ last = NoCall
    /\ engine
    /\ sweep = NoSweep
    /\ \E dir \in SweepDirs : \E w \in SweepThresholds :
          sweep' = [on |-> TRUE, state |-> tire, dir |-> dir,
                    warning_threshold |-> w, t |-> 0,
                    hist |-> <<SweepStatus(Self, dir, w, 0)>>]
    /\ UNCHANGED <<ers, ctx, models, tire, engine, nset, last>>

\* ... and calls stability_assessment again at the next larger magnitude
SweepStep ==
    /\ last = NoCall
    /\ sweep.on
    /\ sweep.t < MaxSweep
    /\ sweep' = [sweep EXCEPT
                   !.t = @ + 1,
                   !.hist = Append(@, SweepStatus(Self, sweep.dir,
                                       sweep.warning_threshold, sweep.t + 1))]
    /\ UNCHANGED <<ers, ctx, models, tire, engine, nset, last>>

EndSweep ==
    /\ last = NoCall
    /\ sweep.on
    /\ sweep' = NoSweep
    /\ UNCHANGED <<ers, ctx, models, tire, engine, nset, last>>

----------------------------------------------------------------------------
(* Several execution contexts inside the methods of engines at the same    *)
(* time.  A method is a sequence of steps; each step reads self.state and   *)
(* self.models as they are when it runs.  An engine is built either on     *)
(* the shared TireState or on a TireState of the context's own; all        *)
(* engines read the same FrictionModels attributes.                        *)

\* the TireState of an engine that a context does not share
PrivateTire == TireStateOf(FInt(4000), RADIANS_8, FInt(100), ONE, FInt(100),
                           "street")
\* the arguments of the concurrent calls; coupling_factor and
\* warning_threshold are left to their defaults
ConcForce == <<FInt(1500), FInt(2000)>>
DEFAULT_COUPLING  == Num(3000, -4)
DEFAULT_THRESHOLD == Num(8500, -4)

\* self, for the call of context c
SelfOf(c) == TireLimits(IF ctx[c].own THEN PrivateTire ELSE tire, models)

FirstPc(op) ==
    CASE op = "get_effective_friction" -> "mu"
      [] op = "friction_ellipse_limit" -> "e_mu"
      [] op = "combined_slip_limit"    -> "c_mu"
      [] op = "stability_assessment"   -> "e_mu"

\* the position after mu = self.get_effective_friction()
AfterMu(pc) ==
    CASE pc = "mu"   -> "done"
      [] pc = "e_mu" -> "e_rest"
      [] pc = "c_mu" -> "c_rest"
      [] pc = "s_mu" -> "s_rest"

\* where the call of context c stands: nothing but its own position decides
\* whether its next step can run (the methods take no lock and wait for
\* nothing)
AtMu(c)            == ctx[c].pc \in {"mu", "e_mu", "c_mu", "s_mu"}
AtEllipseRest(c)   == ctx[c].pc = "e_rest"
AtCombinedRest(c)  == ctx[c].pc = "c_rest"
AtStabilityRest(c) == ctx[c].pc = "s_rest"
AtReturn(c)        == ctx[c].pc = "done"

\* a context enters a method of an engine
Invoke(c) ==
    /\ ctx[c].pc = "idle"
    /\ \E op \in EvaluationMethods : \E own \in BOOLEAN :
          ctx' = [ctx EXCEPT ![c] =
                    [pc |-> FirstPc(op), op |-> op, own |-> own,
                     Fx |-> ConcForce[1], Fy |-> ConcForce[2],
                     mus |-> <<>>, ellipse_check |-> NoCall,
                     combined_check |-> NoCall, res |-> NoCall]]
    /\ UNCHANGED <<ers, tire, engine, models, nset, last, sweep>>

\* a get_effective_friction that clamps the wear of the TireState in place
ComputeMu_ClampingState(c) ==
    /\ AtMu(c)
    /\ ctx' = [ctx EXCEPT
                 ![c].mus = Append(@, get_effective_friction(SelfOf(c))),
                 ![c].res = IF ctx[c].pc = "mu"
                               THEN get_effective_friction(SelfOf(c)) ELSE @,
                 ![c].pc = AfterMu(@)]
    /\ tire' = [tire EXCEPT !.wear = ONE]
    /\ UNCHANGED <<ers, engine, models, nset, last, sweep>>

\* mu = self.get_effective_friction(): lines 141, 178 and 265, and the
\* method itself when it is the one called
ComputeMu(c) ==
    /\ AtMu(c)
    /\ ctx' = [ctx EXCEPT
                 ![c].mus = Append(@, get_effective_friction(SelfOf(c))),
                 ![c].res = IF ctx[c].pc = "mu"
                               THEN get_effective_friction(SelfOf(c)) ELSE @,
                 ![c].pc = AfterMu(@)]
    /\ UNCHANGED <<ers, tire, engine, models, nset, last, sweep>>

\* friction_ellipse_limit from Fz = self.state.vertical_load on
EllipseRest(c) ==
    /\ AtEllipseRest(c)
    /\ ctx' = [ctx EXCEPT ![c] =
                 IF ctx[c].op = "friction_ellipse_limit"
                 THEN [@ EXCEPT !.pc = "done",
                         !.res = EllipseFromMu(ctx[c].mus[Len(ctx[c].mus)],
                                     SelfOf(c).state.vertical_load,
                                     ctx[c].Fx, ctx[c].Fy)]
                 ELSE [@ EXCEPT !.pc = "c_mu",
                         !.ellipse_check =
                             EllipseFromMu(ctx[c].mus[Len(ctx[c].mus)],
                                     SelfOf(c).state.vertical_load,
                                     ctx[c].Fx, ctx[c].Fy)]]
    /\ UNCHANGED <<ers, tire, engine, models, nset, last, sweep>>

\* combined_slip_limit from Fz = self.state.vertical_load on
CombinedRest(c) ==
    /\ AtCombinedRest(c)
    /\ ctx' = [ctx EXCEPT ![c] =
                 IF ctx[c].op = "combined_slip_limit"
                 THEN [@ EXCEPT !.pc = "done",
                         !.res = CombinedFromMu(ctx[c].mus[Len(ctx[c].mus)],
                                     SelfOf(c), ctx[c].Fx, ctx[c].Fy,
                                     DEFAULT_COUPLING)]
                 ELSE [@ EXCEPT !.pc = "s_mu",
                         !.combined_check =
                             CombinedFromMu(ctx[c].mus[Len(ctx[c].mus)],
                                     SelfOf(c), ctx[c].Fx, ctx[c].Fy,
                                     DEFAULT_COUPLING)]]
    /\ UNCHANGED <<ers, tire, engine, models, nset, last, sweep>>

\* stability_assessment from Fz = self.state.vertical_load on
StabilityRest(c) ==
    /\ AtStabilityRest(c)
    /\ ctx' = [ctx EXCEPT
                 ![c].pc = "done",
                 ![c].res = StabilityFromChecks(ctx[c].ellipse_check,
                                ctx[c].combined_check,
                                ctx[c].mus[Len(ctx[c].mus)],
                                SelfOf(c).state.vertical_load,
                                ctx[c].Fx, ctx[c].Fy, DEFAULT_THRESHOLD)]
    /\ UNCHANGED <<ers, tire, engine, models, nset, last, sweep>>

\* the method returns to the context
ReturnCtx(c) ==
    /\ AtReturn(c)
    /\ ctx' = [ctx EXCEPT ![c] = IdleCtx]
    /\ UNCHANGED <<ers, tire, engine, models, nset, last, sweep>>

\* the engines exist, on valid states
InitConcurrent ==
    /\ tire \in {ReferenceTire, UsedTire}
    /\ engine = TRUE
    /\ models = FrictionModels
    /\ nset = 0
    /\ last = NoCall
    /\ sweep = NoSweep
    /\ ctx = [c \in Contexts |-> IdleCtx]
    /\ ers = NoErs

NextConcurrent ==
    \E c \in Contexts :
        \/ Invoke(c)
        \/ ComputeMu(c)
        \/ EllipseRest(c)
        \/ CombinedRest(c)
        \/ StabilityRest(c)
        \/ ReturnCtx(c)

SpecConcurrent == InitConcurrent /\ [][NextConcurrent]_vars

----------------------------------------------------------------------------

Next ==
    \/ SetField
    \/ Validate
    \/ Construct
    \/ GetEffectiveFriction
    \/ FrictionEllipseLimit
    \/ CombinedSlipLimit
    \/ StabilityAssessment
    \/ Return
    \/ StartSweep
    \/ SweepStep
    \/ EndSweep

Spec == Init /\ [][Next]_vars

----------------------------------------------------------------------------
(* src/powertrain/ers.py *)

\* how many harvest and deploy calls are made on one ERS
MaxErsCalls == 4

\* capacities [kJ], efficiencies (default 0.9) and the amounts [kJ] that
\* the callers pass to harvest and deploy
ErsCapacities   == {FInt(4000), FInt(1000)}
ErsEfficiencies == {Num(9000, -4), ONE}
ErsAmounts      == {FInt(-5000), FInt(-1000), Zero, FInt(500), FInt(1000),
                    FInt(5000)}

\* ERS.__init__; ncalls, op and out record the calls made and the value
\* the last one returned
ERS(capacity_kJ, efficiency) ==
    [on |-> TRUE, capacity |-> capacity_kJ, efficiency |-> efficiency,
     energy |-> Zero, ncalls |-> 0, op |-> "ERS", out |-> Zero]

\* ERS.harvest: self.energy after the call, which is also returned
harvest(self, input_energy_kJ) ==
    PyMin(FAdd(self.energy, FMul(input_energy_kJ, self.efficiency)),
          self.capacity)

\* ERS.deploy: available, then delivered and self.energy after the call
Available(self, request_kJ) == PyMin(request_kJ, self.energy)
deploy(self, available) ==
    [delivered |-> FMul(available, self.efficiency),
     energy |-> FSub(self.energy, available)]

\* ERS.state_of_charge
state_of_charge(self) ==
    IF FGt(self.capacity, Zero) THEN FDiv(self.energy, self.capacity)
    ELSE Zero

InitERS ==
    /\ tire = ReferenceTire
    /\ engine = FALSE
    /\ models = FrictionModels
    /\ nset = 0
    /\ last = NoCall
    /\ sweep = NoSweep
    /\ ctx = [c \in Contexts |-> IdleCtx]
    /\ \E c \in ErsCapacities : \E e \in ErsEfficiencies : ers = ERS(c, e)

Harvest ==
    /\ ers.on
    /\ ers.ncalls < MaxErsCalls
    /\ \E a \in ErsAmounts :
          ers' = [ers EXCEPT !.energy = harvest(ers, a),
                             !.ncalls = @ + 1,
                             !.op = "harvest",
                             !.out = harvest(ers, a)]
    /\ UNCHANGED <<tire, engine, models, nset, last, sweep, ctx>>

Deploy ==
    /\ ers.on
    /\ ers.ncalls < MaxErsCalls
    /\ \E a \in ErsAmounts :
          ers' = [ers EXCEPT !.energy = deploy(ers, Available(ers, a)).energy,
                             !.ncalls = @ + 1,
                             !.op = "deploy",
                             !.out = deploy(ers, Available(ers, a)).delivered]
    /\ UNCHANGED <<tire, engine, models, nset, last, sweep, ctx>>

StateOfCharge ==
    /\ ers.on
    /\ ers.op # "state_of_charge"
    /\ ers' = [ers EXCEPT !.op = "state_of_charge",
                          !.out = state_of_charge(ers)]
    /\ UNCHANGED <<tire, engine, models, nset, last, sweep, ctx>>

NextERS == Harvest \/ Deploy \/ StateOfCharge

SpecERS == InitERS /\ [][NextERS]_vars

\* ------------------------------------------------------------------
\* The vocabulary of the properties
\* ------------------------------------------------------------------

\* the four validation bounds as the specification states them
ValidBounds(s) ==
    /\ FGt(s.vertical_load, Zero)
    /\ FLe(FInt(-50), s.temperature) /\ FLe(s.temperature, FInt(150))
    /\ FLe(Zero, s.wear) /\ FLe(s.wear, ONE)
    /\ FLe(FInt(100), s.pressure) /\ FLe(s.pressure, FInt(400))

\* the engine on the state s, as the call in last saw it
EngineOn(s) == TireLimits(s, models)

\* a valid TireState: inside the bounds, of one of the five compounds
ValidState(s) == ValidBounds(s) /\ s.type \in TireType

EvaluationOps == EvaluationMethods
LimitOps == {"friction_ellipse_limit", "combined_slip_limit"}

InUnitBand(lo, x, hi) == FLe(lo, x) /\ FLe(x, hi)

\* a maximum force that is numerically zero, a force that is not
NumericallyZero(x) == FLt(FAbs(x), EPS)
NonZero(x) == IsNum(x) /\ ~IsZero(x)

\* the maxima of the call in last, per check
MaxX(c) == IF c.op = "friction_ellipse_limit"
              THEN c.res.Fx_max ELSE c.res.Fx_max_effective
MaxY(c) == IF c.op = "friction_ellipse_limit"
              THEN c.res.Fy_max ELSE c.res.Fy_max_effective

Severity(status) ==
    CASE status = "STABLE" -> 0
      [] status = "WARNING" -> 1
      [] status = "UNSTABLE" -> 2
      [] OTHER -> 3

\* ------------------------------------------------------------------
\* C1. validate, alone or run by the construction of TireLimits,
\* accepts a state exactly when vertical_load > 0, -50 <= temperature
\* <= 150, 0 <= wear <= 1 and 100 <= pressure <= 400; every other state
\* fails with a validation error and leaves no engine.
\* ------------------------------------------------------------------
C1_ValidateAcceptsExactlyTheBounds ==
    last.op \in {"validate", "TireLimits"} =>
        /\ (last.out = "True") <=> ValidBounds(last.state)
        /\ (last.op = "TireLimits" /\ ~ValidBounds(last.state)) => ~engine

\* ------------------------------------------------------------------
\* C2. Validation precedes every derived computation: every evaluation
\* computes from a state inside the four validation bounds (no
\* evaluation of the engine ends in a validation error, so this is the
\* only way left).  The loads that are not numbers are left aside: the
\* property fails by the reassignment of a field alone.
\* ------------------------------------------------------------------
C2_EvaluationOnlyFromValidatedState ==
    (last.op \in EvaluationOps /\ IsNum(last.state.vertical_load)) =>
        ValidBounds(last.state)

\* ------------------------------------------------------------------
\* C3. For every valid TireState get_effective_friction returns mu_x
\* and mu_y inside [0.1, 2.0].
\* ------------------------------------------------------------------
C3_EffectiveFrictionInBand ==
    (last.op = "get_effective_friction" /\ ValidState(last.state)) =>
        /\ ~last.res.exc
        /\ InUnitBand(Num(1000, -4), last.res.mu_x, FInt(2))
        /\ InUnitBand(Num(1000, -4), last.res.mu_y, FInt(2))

\* a load far below the reference load: the load factor alone would put
\* the coefficient above 2.0, and the value returned is 2.0
C3_Witness ==
    /\ last.op = "get_effective_friction"
    /\ ValidState(last.state)
    /\ FLt(last.res.load_ratio, EPS)
    /\ last.res.mu_x = FInt(2)
    /\ last.res.mu_y = FInt(2)

\* ------------------------------------------------------------------
\* C4. With Fx_max = mu_x*Fz and Fy_max = mu_y*Fz both non-degenerate,
\* friction_ellipse_limit returns ellipse_value = (Fx/Fx_max)^2 +
\* (Fy/Fy_max)^2, usage = sqrt(ellipse_value), and within_limit true
\* exactly when ellipse_value <= 1.
\* ------------------------------------------------------------------
C4_EllipseFormula ==
    (/\ last.op = "friction_ellipse_limit"
     /\ ~last.res.exc
     /\ ~NumericallyZero(last.res.Fx_max)
     /\ ~NumericallyZero(last.res.Fy_max)) =>
        /\ last.res.Fx_max = FMul(get_effective_friction(EngineOn(last.state)).mu_x,
                                  last.state.vertical_load)
        /\ last.res.Fy_max = FMul(get_effective_friction(EngineOn(last.state)).mu_y,
                                  last.state.vertical_load)
        /\ last.res.ellipse_value =
               FAdd(FSquare(FDiv(last.Fx, last.res.Fx_max)),
                    FSquare(FDiv(last.Fy, last.res.Fy_max)))
        /\ last.res.usage = FSqrt(last.res.ellipse_value)
        /\ last.res.within_limit <=> FLe(last.res.ellipse_value, ONE)

\* a non-zero force exactly on the ellipse is within the limit
C4_Witness ==
    /\ last.op = "friction_ellipse_limit"
    /\ ValidState(last.state)
    /\ ~last.res.exc
    /\ ~NumericallyZero(last.res.Fx_max)
    /\ ~NumericallyZero(last.res.Fy_max)
    /\ NonZero(last.Fx)
    /\ last.res.ellipse_value = ONE
    /\ last.res.within_limit

\* ------------------------------------------------------------------
\* C5. The status of stability_assessment is UNSTABLE exactly when the
\* ellipse check reports within_limit false; otherwise WARNING exactly
\* when the ellipse usage is strictly greater than warning_threshold,
\* and STABLE otherwise.
\* ------------------------------------------------------------------
C5_StatusFromEllipse ==
    (last.op = "stability_assessment" /\ ~last.res.exc) =>
        LET ellipse_check == friction_ellipse_limit(EngineOn(last.state),
                                                    last.Fx, last.Fy)
        IN  /\ last.res.ellipse_usage = ellipse_check.usage
            /\ (last.res.status = "UNSTABLE") <=> ~ellipse_check.within_limit
            /\ (last.res.status = "WARNING") <=>
                   /\ ellipse_check.within_limit
                   /\ FGt(last.res.ellipse_usage, last.warning_threshold)
            /\ last.res.status \in {"UNSTABLE", "WARNING", "STABLE"}

\* a usage equal to the threshold is STABLE
C5_Witness ==
    /\ last.op = "stability_assessment"
    /\ ~last.res.exc
    /\ NonZero(last.Fx)
    /\ last.res.ellipse_usage = last.warning_threshold
    /\ last.res.status = "STABLE"

\* ------------------------------------------------------------------
\* C6. For every valid state, with Fx = Fy = 0 both
\* friction_ellipse_limit and combined_slip_limit (any coupling_factor)
\* report within_limit true and usage 0.
\* ------------------------------------------------------------------
C6_ZeroForceIsWithinLimit ==
    (/\ last.op \in LimitOps
     /\ ValidState(last.state)
     /\ IsZero(last.Fx) /\ IsZero(last.Fy)) =>
        /\ ~last.res.exc
        /\ last.res.within_limit
        /\ last.res.usage = Zero

\* the combined check at zero force with maxima that are numerically
\* zero, where the ratio is not defined by a division
C6_Witness ==
    /\ last.op = "combined_slip_limit"
    /\ ValidState(last.state)
    /\ IsZero(last.Fx) /\ IsZero(last.Fy)
    /\ NumericallyZero(last.res.Fx_max_effective)
    /\ last.res.within_limit
    /\ last.res.usage = Zero

\* ------------------------------------------------------------------
\* C7. In friction_ellipse_limit and combined_slip_limit, whenever the
\* maximum force on an axis is numerically zero (the effective maximum
\* for the combined check) and the applied force on that axis is
\* non-zero, the result has usage unbounded and within_limit false, and
\* no error is raised.
\* ------------------------------------------------------------------
C7_ZeroMaximumIsUnbounded ==
    (/\ last.op \in LimitOps
     /\ \/ NumericallyZero(MaxX(last)) /\ NonZero(last.Fx)
        \/ NumericallyZero(MaxY(last)) /\ NonZero(last.Fy)) =>
        /\ ~last.res.exc
        /\ last.res.usage = Inf
        /\ ~last.res.within_limit

\* ------------------------------------------------------------------
\* C8. For every valid state, every Fx and Fy and every coupling_factor
\* in [0, 0.5], the lateral_reduction and longitudinal_reduction that
\* combined_slip_limit returns lie within [0.5, 1.0].
\* ------------------------------------------------------------------
C8_ReductionsInBand ==
    (/\ last.op = "combined_slip_limit"
     /\ ValidState(last.state)
     /\ InUnitBand(Zero, last.coupling_factor, Num(5000, -4))
     /\ ~last.res.exc) =>
        /\ InUnitBand(Num(5000, -4), last.res.lateral_reduction, ONE)
        /\ InUnitBand(Num(5000, -4), last.res.longitudinal_reduction, ONE)

\* a force so far beyond the nominal maximum that 1 - coupling * usage is
\* below 0.5, and the reduction returned is 0.5
C8_Witness ==
    /\ last.op = "combined_slip_limit"
    /\ ValidState(last.state)
    /\ InUnitBand(Zero, last.coupling_factor, Num(5000, -4))
    /\ ~last.res.exc
    /\ FGt(FAbs(last.Fx), FMul(FInt(2), last.res.Fx_max_effective))
    /\ FGt(last.coupling_factor, Zero)
    /\ last.res.lateral_reduction = Num(5000, -4)

Near(x, y, tol) == FLe(FAbs(FSub(x, y)), tol)

ExampleCall ==
    /\ last.op = "friction_ellipse_limit"
    /\ last.state.vertical_load = FInt(4000)
    /\ last.state.wear = Zero
    /\ last.state.pressure = FInt(200)
    /\ last.state.temperature = FInt(80)
    /\ last.state.type = "performance"
    /\ last.Fx = FInt(1500)
    /\ last.Fy = FInt(2000)

\* C10 as stated: the check works from mu_x = mu_y = 1.1, giving
\* Fx_max = Fy_max = 4400 N, usage about 0.568 and within_limit true.
C10_ExampleAsStated ==
    ExampleCall =>
        /\ ~last.res.exc
        /\ Near(get_effective_friction(EngineOn(last.state)).mu_x, Num(1100, -3),
                Num(5000, -7))
        /\ Near(get_effective_friction(EngineOn(last.state)).mu_y, Num(1100, -3),
                Num(5000, -7))
        /\ last.res.Fx_max = FInt(4400)
        /\ last.res.Fy_max = FInt(4400)
        /\ Near(last.res.usage, Num(5680, -4), Num(5000, -7))
        /\ last.res.within_limit

\* C10 as the code has it: the check works from mu_x = 1.1 and
\* mu_y = 1.05, giving Fx_max = 4400 N, Fy_max = 4200 N, usage about
\* 0.586 and within_limit true.
C10_ExampleAsComputed ==
    ExampleCall =>
        /\ ~last.res.exc
        /\ Near(get_effective_friction(EngineOn(last.state)).mu_x, Num(1100, -3),
                Num(5000, -7))
        /\ Near(get_effective_friction(EngineOn(last.state)).mu_y, Num(1050, -3),
                Num(5000, -7))
        /\ last.res.Fx_max = FInt(4400)
        /\ last.res.Fy_max = FInt(4200)
        /\ Near(last.res.usage, Num(5860, -4), Num(5000, -7))
        /\ last.res.within_limit

C10_Witness ==
    /\ ExampleCall
    /\ last.res.within_limit
    /\ FGt(last.res.usage, Zero)

\* ------------------------------------------------------------------
\* C11. The second worked example: the same state with Fx = 4000 N,
\* Fy = 3500 N.  The ellipse value is greater than 1,
\* friction_ellipse_limit reports within_limit false and
\* stability_assessment reports UNSTABLE.
\* ------------------------------------------------------------------
ExampleState ==
    /\ last.state.vertical_load = FInt(4000)
    /\ last.state.wear = Zero
    /\ last.state.pressure = FInt(200)
    /\ last.state.temperature = FInt(80)
    /\ last.state.type = "performance"

OverloadCall(op) ==
    /\ last.op = op
    /\ ExampleState
    /\ last.Fx = FInt(4000)
    /\ last.Fy = FInt(3500)

C11_OverloadExample ==
    /\ OverloadCall("friction_ellipse_limit") =>
          /\ ~last.res.exc
          /\ FGt(last.res.ellipse_value, ONE)
          /\ ~last.res.within_limit
    /\ OverloadCall("stability_assessment") =>
          /\ ~last.res.exc
          /\ last.res.status = "UNSTABLE"

C11_Witness ==
    /\ OverloadCall("stability_assessment")
    /\ last.res.status = "UNSTABLE"
    /\ FGt(last.res.ellipse_usage, ONE)
    /\ FLt(last.res.force_margin_N, Zero)

\* ------------------------------------------------------------------
\* C12. Limit checks never raise on a validated state: for every valid
\* TireState and every Fx, Fy, coupling_factor and warning_threshold,
\* friction_ellipse_limit, combined_slip_limit and stability_assessment
\* complete and return a result.
\* ------------------------------------------------------------------
C12_LimitChecksNeverRaise ==
    (/\ last.op \in {"friction_ellipse_limit", "combined_slip_limit",
                     "stability_assessment"}
     /\ ValidState(last.state)) =>
        ~last.res.exc

\* ------------------------------------------------------------------
\* C13. An unknown compound is fatal at construction: TireLimits built
\* from a TireState whose type is not one of the five table keys fails,
\* and no fallback friction profile is ever used (an evaluation on such
\* a state returns no coefficients).
\* ------------------------------------------------------------------
C13_UnknownCompoundFatalAtConstruction ==
    /\ (last.op = "TireLimits" /\ last.state.type \notin TireType) =>
          (last.out # "True" /\ ~engine)
    /\ (last.op \in EvaluationOps /\ last.state.type \notin TireType) =>
          last.res.exc

\* ------------------------------------------------------------------
\* C14. Every validation failure names the offending field and the
\* violated bound: the error produced when one of the four checks fails
\* identifies that field and states the bound it violated.
\* ------------------------------------------------------------------
CheckedFields == {"vertical_load", "temperature", "wear", "pressure"}

\* the field f of s is outside its bound
OutOfBound(s, f) ==
    CASE f = "vertical_load" -> ~FGt(s.vertical_load, Zero)
      [] f = "temperature" -> ~InUnitBand(FInt(-50), s.temperature, FInt(150))
      [] f = "wear" -> ~InUnitBand(Zero, s.wear, ONE)
      [] f = "pressure" -> ~InUnitBand(FInt(100), s.pressure, FInt(400))

\* the word by which a message names a field, the words that state its bound
FieldWord ==
    [vertical_load |-> "load", temperature |-> "Temperature",
     wear |-> "Wear", pressure |-> "Pressure"]
BoundWords ==
    [vertical_load |-> {"positive", "0"}, temperature |-> {"-50", "150"},
     wear |-> {"0", "1"}, pressure |-> {"100", "400"}]

Words(msg) == {msg.words[i] : i \in 1..Len(msg.words)}
NamesField(msg, f) == FieldWord[f] \in Words(msg)
StatesBound(msg, f) == BoundWords[f] \cap Words(msg) # {}

C14_ErrorNamesFieldAndBound ==
    (last.op \in {"validate", "TireLimits"} /\ last.out # "True") =>
        \E f \in CheckedFields :
            /\ OutOfBound(last.state, f)
            /\ NamesField(last.msg, f)
            /\ last.msg.value = last.state[f]
            /\ StatesBound(last.msg, f)

\* ------------------------------------------------------------------
\* C15. Results are deterministic and history-independent: whatever
\* calls were made before it, a call of get_effective_friction,
\* friction_ellipse_limit, combined_slip_limit or stability_assessment
\* returns what the same call returns on an engine that has made no
\* call, with the FrictionModels class as it is defined; the last
\* status of a sweep is the one a first call would give.
\* ------------------------------------------------------------------
Fresh(s) == TireLimits(s, FrictionModels)

C15_ResultsAreHistoryIndependent ==
    /\ last.op = "get_effective_friction" =>
          last.res = get_effective_friction(Fresh(last.state))
    /\ last.op = "friction_ellipse_limit" =>
          last.res = friction_ellipse_limit(Fresh(last.state),
                                            last.Fx, last.Fy)
    /\ last.op = "combined_slip_limit" =>
          last.res = combined_slip_limit(Fresh(last.state), last.Fx,
                                         last.Fy, last.coupling_factor)
    /\ last.op = "stability_assessment" =>
          last.res = stability_assessment(Fresh(last.state), last.Fx,
                                          last.Fy, last.warning_threshold)
    /\ sweep.on =>
          sweep.hist[Len(sweep.hist)] =
              SweepStatus(Fresh(sweep.state), sweep.dir,
                          sweep.warning_threshold, sweep.t)

\* the call that ends a sweep, made after MaxSweep calls of
\* stability_assessment and as many of friction_ellipse_limit
C15_Witness ==
    /\ sweep.on
    /\ sweep.t = MaxSweep
    /\ Len(sweep.hist) = MaxSweep + 1
    /\ sweep.hist[Len(sweep.hist)] =
           SweepStatus(Fresh(sweep.state), sweep.dir,
                       sweep.warning_threshold, sweep.t)

\* ------------------------------------------------------------------
\* C16. No engine operation changes anything it reads: a step of
\* validate, of the construction or of an evaluation call leaves every
\* field of the TireState and every entry of FrictionModels as it was,
\* and the only thing it changes in the engine is that construction
\* makes it exist.
\* ------------------------------------------------------------------
C16_EngineCallsChangeNothing ==
    [][(last' # last \/ sweep' # sweep) =>
           /\ tire' = tire
           /\ models' = models
           /\ (engine' # engine) => (last'.op = "TireLimits" /\ engine')]_vars

\* after a stability_assessment on a state the caller had reassigned, the
\* TireState and the tables are as the caller left them
C16_Witness ==
    /\ last.op = "stability_assessment"
    /\ ~last.res.exc
    /\ nset > 0
    /\ tire = last.state
    /\ models = FrictionModels

\* ------------------------------------------------------------------
\* C17. Concurrent invocation is safe without coordination: when
\* several contexts are inside the engine's methods at the same time
\* (on engines of their own that share FrictionModels, or on one shared
\* engine), every interleaving gives each call the result it gets when
\* it runs alone, and no call waits on another.
\* ------------------------------------------------------------------
\* what the call of context c returns when nothing else runs
AloneResult(c) ==
    CASE ctx[c].op = "get_effective_friction" ->
             get_effective_friction(Fresh(SelfOf(c).state))
      [] ctx[c].op = "friction_ellipse_limit" ->
             friction_ellipse_limit(Fresh(SelfOf(c).state),
                                    ctx[c].Fx, ctx[c].Fy)
      [] ctx[c].op = "combined_slip_limit" ->
             combined_slip_limit(Fresh(SelfOf(c).state), ctx[c].Fx,
                                 ctx[c].Fy, DEFAULT_COUPLING)
      [] ctx[c].op = "stability_assessment" ->
             stability_assessment(Fresh(SelfOf(c).state), ctx[c].Fx,
                                  ctx[c].Fy, DEFAULT_THRESHOLD)

\* the next step of the call of context c can run
CanAdvance(c) ==
    \/ AtMu(c)
    \/ AtEllipseRest(c)
    \/ AtCombinedRest(c)
    \/ AtStabilityRest(c)
    \/ AtReturn(c)

C17_ConcurrentCallsAreIndependent ==
    \A c \in Contexts :
        /\ ctx[c].pc = "done" => ctx[c].res = AloneResult(c)
        /\ ctx[c].pc # "idle" => CanAdvance(c)

\* a stability_assessment that ran to its end on the shared engine while
\* another context was in the middle of a call on the same engine
C17_Witness ==
    \E c \in Contexts : \E d \in Contexts \ {c} :
        /\ ctx[c].pc = "done"
        /\ ctx[c].op = "stability_assessment"
        /\ ~ctx[c].own
        /\ ctx[c].res = AloneResult(c)
        /\ ctx[d].pc \in {"e_rest", "c_rest", "s_rest"}
        /\ ~ctx[d].own

\* ------------------------------------------------------------------
\* C18. Within one stability_assessment call effective friction is
\* computed once, and the ellipse check, the combined-slip check and
\* the force-margin computation all use that same computed
\* (mu_x, mu_y).
\* ------------------------------------------------------------------
C18_FrictionComputedOnce ==
    \A c \in Contexts :
        (ctx[c].pc = "done" /\ ctx[c].op = "stability_assessment") =>
            /\ Len(ctx[c].mus) = 1
            /\ \A i \in 1..Len(ctx[c].mus) : ctx[c].mus[i] = ctx[c].mus[1]

\* ------------------------------------------------------------------
\* C19. The stability status depends only on the ellipse check: two
\* valid states that differ only in slip_angle and slip_ratio give the
\* same status for the same Fx, Fy and warning_threshold, and the
\* status may be STABLE or WARNING while the combined-slip check
\* reports within_limit false.
\* ------------------------------------------------------------------
\* other values of (slip_angle, slip_ratio)
OtherSlips == {<<Zero, ONE>>, <<Num(-3000, -4), Num(-5000, -4)>>}

WithSlip(s, a) == [s EXCEPT !.slip_angle = a[1], !.slip_ratio = a[2]]

C19_StatusIgnoresSlip ==
    (/\ last.op = "stability_assessment"
     /\ ValidState(last.state)
     /\ ~last.res.exc) =>
        \A a \in OtherSlips :
            StatusOf(stability_assessment(EngineOn(WithSlip(last.state, a)),
                        last.Fx, last.Fy, last.warning_threshold))
                = last.res.status

\* within the ellipse, beyond the combined-slip limit
C19_Witness ==
    /\ last.op = "stability_assessment"
    /\ ValidState(last.state)
    /\ ~last.res.exc
    /\ last.res.status \in {"STABLE", "WARNING"}
    /\ FGt(last.res.combined_usage, ONE)
    /\ ~combined_slip_limit(EngineOn(last.state), last.Fx, last.Fy,
                            DEFAULT_COUPLING).within_limit
    /\ \E a \in OtherSlips :
          combined_slip_limit(EngineOn(WithSlip(last.state, a)), last.Fx,
                              last.Fy, DEFAULT_COUPLING).usage
              # last.res.combined_usage

\* ------------------------------------------------------------------
\* C20. In combined_slip_limit the coupling is bidirectional:
\* lateral_reduction = clamp(1 - coupling * Fx_usage, 0.5, 1) comes from
\* the longitudinal usage, longitudinal_reduction =
\* clamp(1 - coupling * Fy_usage, 0.5, 1) from the lateral usage, the
\* effective maxima are Fx_max_nom * longitudinal_reduction and
\* Fy_max_nom * lateral_reduction * slip_factor, usage is computed
\* against the effective maxima, and within_limit holds exactly when
\* the squared usage is at most 1.
\* ------------------------------------------------------------------
\* the reduction that a usage of the other axis gives
ReductionFrom(coupling_factor, F, F_max_nom) ==
    Clamp(Num(5000, -4), ONE,
          FSub(ONE, FMul(ClampCoupling(coupling_factor),
                         NominalUsage(F, F_max_nom))))

\* the squared usage against the effective maxima a call returned
UsageSq(c) ==
    IF \/ FEq(CombinedRatioSq(c.Fx, c.res.Fx_max_effective), Inf)
       \/ FEq(CombinedRatioSq(c.Fy, c.res.Fy_max_effective), Inf)
    THEN Inf
    ELSE FAdd(CombinedRatioSq(c.Fx, c.res.Fx_max_effective),
              CombinedRatioSq(c.Fy, c.res.Fy_max_effective))

C21_ForceMargin ==
    (/\ last.op = "stability_assessment"
     /\ ValidState(last.state)
     /\ ~last.res.exc) =>
        LET max_force     == last.res.max_force_at_angle
            current_force == FHypot(last.Fx, last.Fy)
            margin        == last.res.force_margin_N
            margin_pct    == last.res.force_margin_pct
        IN  /\ margin = FSub(max_force, current_force)
            /\ FGt(max_force, EPS) =>
                  margin_pct = FMul(FDiv(margin, max_force), FInt(100))
            /\ ~FGt(max_force, EPS) =>
                  margin_pct = (IF NumericallyZero(current_force)
                                THEN Zero ELSE FInt(-100))

\* a trivial maximum force under a force that is not numerically zero
C21_Witness ==
    /\ last.op = "stability_assessment"
    /\ ValidState(last.state)
    /\ ~last.res.exc
    /\ ~FGt(last.res.max_force_at_angle, EPS)
    /\ ~NumericallyZero(FHypot(last.Fx, last.Fy))
    /\ last.res.force_margin_pct = FInt(-100)
    /\ FLt(last.res.force_margin_N, Zero)

\* ------------------------------------------------------------------
\* C22. In stability_assessment the force angle is atan2(Fy, Fx) when
\* |Fx| is not numerically zero, and sign(Fy) * pi / 2 when |Fx| is
\* numerically zero, for every Fy including Fy = 0; max_force_at_angle
\* is computed at that angle.
\* ------------------------------------------------------------------
\* sign(Fy) * pi / 2, with sign(0) = 0
SignedHalfPi(Fy) == FMul(FInt(FSign(Fy)), HALF_PI)

ForceAngle(Fx, Fy) ==
    IF FGt(FAbs(Fx), EPS) THEN FAtan2(Fy, Fx) ELSE SignedHalfPi(Fy)

\* the largest force the ellipse of mu allows in the direction angle
MaxForceAt(angle, mu, Fz) ==
    MaxForce(Fz, AngleTerm(FCos(angle), mu.mu_x),
                 AngleTerm(FSin(angle), mu.mu_y))

C22_ForceAngle ==
    (/\ last.op = "stability_assessment"
     /\ ValidState(last.state)
     /\ ~last.res.exc) =>
        LET angle == ForceAngle(last.Fx, last.Fy)
            mu    == get_effective_friction(EngineOn(last.state))
        IN  /\ last.res.current_angle_deg = FDegrees(angle)
            /\ last.res.max_force_at_angle =
                   MaxForceAt(angle, mu, last.state.vertical_load)

\* ------------------------------------------------------------------
\* C23. Holding load, wear, pressure and compound fixed, the
\* temperature factor returned by get_effective_friction is
\* non-decreasing in temperature from the cold breakpoint up to the
\* optimal breakpoint and non-increasing from the optimal breakpoint
\* upward; it is constant below cold and above hot.
\* ------------------------------------------------------------------
\* temperatures on both sides of, and at, the three breakpoints
TempGrid == {FInt(-50), FInt(-10), Zero, FInt(1), FInt(20), FInt(40),
             FInt(79), FInt(80), FInt(81), FInt(100), FInt(119),
             FInt(120), FInt(121), FInt(150)}

\* the temperature factor get_effective_friction returns at temperature T
TempFactorAt(s, T) ==
    get_effective_friction(EngineOn([s EXCEPT !.temperature = T])).temp_factor

\* the ordering the claim gives to the factors f1 at T1 and f2 at T2 >= T1
TempOrdered(T1, f1, T2, f2, params) ==
    /\ (FGe(T1, params.cold_temp) /\ FLe(T2, params.opt_temp)) => FLe(f1, f2)
    /\ FGe(T1, params.opt_temp) => FGe(f1, f2)
    /\ FLe(T2, params.cold_temp) => f1 = f2
    /\ FGe(T1, params.hot_temp) => f1 = f2

C23_TempFactorMonotone ==
    (/\ last.op = "get_effective_friction"
     /\ ValidState(last.state)
     /\ ~last.res.exc) =>
        \A T \in TempGrid :
            /\ FLe(last.state.temperature, T) =>
                  TempOrdered(last.state.temperature, last.res.temp_factor,
                              T, TempFactorAt(last.state, T), TEMP_PARAMS)
            /\ FLe(T, last.state.temperature) =>
                  TempOrdered(T, TempFactorAt(last.state, T),
                              last.state.temperature, last.res.temp_factor,
                              TEMP_PARAMS)

\* a temperature between optimal and hot, with a strictly larger factor
\* at a lower temperature and a strictly smaller one at a higher
C23_Witness ==
    /\ last.op = "get_effective_friction"
    /\ ValidState(last.state)
    /\ ~last.res.exc
    /\ FGt(last.state.temperature, TEMP_PARAMS.opt_temp)
    /\ FLt(last.state.temperature, TEMP_PARAMS.hot_temp)
    /\ FGt(TempFactorAt(last.state, FInt(81)), last.res.temp_factor)
    /\ FLt(TempFactorAt(last.state, FInt(119)), last.res.temp_factor)
    /\ FLt(TempFactorAt(last.state, FInt(20)),
           TempFactorAt(last.state, FInt(40)))

\* ------------------------------------------------------------------
\* C24. For every valid state the diagnostic factors returned by
\* get_effective_friction stay in their ranges and never add grip:
\* pressure_factor lies in [0.8, 1.0], wear_factor = 1 - 0.2 * wear
\* lies in [0.8, 1.0], and temp_factor lies in [0.6, 1.0] with value
\* 1.0 exactly at the optimal temperature.
\* ------------------------------------------------------------------
C24_FactorsInRange ==
    (/\ last.op = "get_effective_friction"
     /\ ValidState(last.state)
     /\ ~last.res.exc) =>
        /\ InUnitBand(Num(8000, -4), last.res.pressure_factor, ONE)
        /\ last.res.wear_factor
               = FSub(ONE, FMul(Num(2000, -4), last.state.wear))
        /\ InUnitBand(Num(8000, -4), last.res.wear_factor, ONE)
        /\ InUnitBand(Num(6000, -4), last.res.temp_factor, ONE)
        /\ (last.state.temperature = FInt(80)) <=> (last.res.temp_factor = ONE)
        /\ \A T \in TempGrid :
              /\ InUnitBand(Num(6000, -4), TempFactorAt(last.state, T), ONE)
              /\ (T = FInt(80)) <=> (TempFactorAt(last.state, T) = ONE)

\* the largest valid pressure deviation, 200 kPa, which costs exactly
\* 20 %, on a tire that is worn and not at the optimal temperature
C24_Witness ==
    /\ last.op = "get_effective_friction"
    /\ ValidState(last.state)
    /\ ~last.res.exc
    /\ last.state.pressure = FInt(400)
    /\ last.res.pressure_factor = Num(8000, -4)
    /\ FGt(last.state.wear, Zero)
    /\ FLt(last.res.wear_factor, ONE)
    /\ FLt(last.res.temp_factor, ONE)

\* ------------------------------------------------------------------
\* C25. The slip-angle efficiency applied to lateral capacity in
\* combined_slip_limit (slip_factor) depends only on |slip_angle|,
\* rises from zero slip up to the optimal slip angle of 8 degrees where
\* it equals 1.0, decreases beyond it, and the value applied always
\* lies within [0.6, 1.0].
\* ------------------------------------------------------------------
\* the slip_factor of a call on the state s at the slip angle a
SlipFactorAt(s, a) == SlipFactor(EngineOn([s EXCEPT !.slip_angle = a]))

\* the order of the factors f1 at |slip| a1 and f2 at |slip| a2 >= a1
SlipOrdered(a1, f1, a2, f2) ==
    /\ FLe(a2, RADIANS_8) =>
          /\ FLe(f1, f2)
          /\ (FLt(a1, a2) /\ FGt(f2, Num(6000, -4))) => FLt(f1, f2)
    /\ FGe(a1, RADIANS_8) =>
          /\ FGe(f1, f2)
          /\ (FLt(a1, a2) /\ FGt(f1, Num(6000, -4))) => FGt(f1, f2)

C25_SlipFactorShape ==
    (/\ last.op = "combined_slip_limit"
     /\ ValidState(last.state)
     /\ ~last.res.exc) =>
        LET a == FAbs(last.state.slip_angle)
            f == last.res.slip_factor
        IN  /\ InUnitBand(Num(6000, -4), f, ONE)
            /\ f = SlipFactorAt(ReferenceTire, a)
            /\ f = SlipFactorAt(UsedTire, FNeg(a))
            /\ SlipFactorAt(last.state, RADIANS_8) = ONE
            /\ \A g \in SlipGrid :
                  LET fg == SlipFactorAt(last.state, g)
                  IN  /\ InUnitBand(Num(6000, -4), fg, ONE)
                      /\ SlipFactorAt(last.state, FNeg(g)) = fg
                      /\ FLe(a, g) => SlipOrdered(a, f, g, fg)
                      /\ FLe(g, a) => SlipOrdered(g, fg, a, f)

\* a slip angle beyond the optimum whose factor is below 1 and above the
\* clamp, on a call whose lateral maximum it lowers
C25_Witness ==
    /\ last.op = "combined_slip_limit"
    /\ ValidState(last.state)
    /\ ~last.res.exc
    /\ FGt(FAbs(last.state.slip_angle), RADIANS_8)
    /\ FLt(last.state.slip_angle, Zero)
    /\ FLt(last.res.slip_factor, ONE)
    /\ FGt(last.res.slip_factor, Num(6000, -4))
    /\ FLt(last.res.slip_factor, SlipFactorAt(last.state, Num(2000, -4)))
    /\ FGt(last.res.slip_factor, SlipFactorAt(last.state, Num(4189, -4)))

\* ------------------------------------------------------------------
\* C26. combined_slip_limit clamps coupling_factor to [0, 0.5] before
\* use: for every valid state and forces, a call with coupling_factor c
\* returns the same result as a call with min(0.5, max(0, c)); the
\* given value is never rejected and the default is 0.3.
\* ------------------------------------------------------------------
\* min(0.5, max(0, c))
ClampedCoupling(c) == PyMin(Num(5000, -4), PyMax(Zero, c))

C26_CouplingClamped ==
    /\ DEFAULT_COUPLING = Num(3000, -4)
    /\ (last.op = "combined_slip_limit" /\ ValidState(last.state)) =>
          /\ last.res = combined_slip_limit(EngineOn(last.state), last.Fx,
                            last.Fy, ClampedCoupling(last.coupling_factor))
          /\ InUnitBand(Zero, ClampedCoupling(last.coupling_factor),
                        Num(5000, -4))

\* a coupling factor of 1 on a call whose lateral reduction is the one of
\* 0.5: above the 1 - usage that the factor 1 would give
C26_Witness ==
    /\ last.op = "combined_slip_limit"
    /\ ValidState(last.state)
    /\ ~last.res.exc
    /\ last.coupling_factor = ONE
    /\ NonZero(last.Fx)
    /\ FLt(last.res.lateral_reduction, ONE)
    /\ FGt(last.res.lateral_reduction, Num(5000, -4))

\* ------------------------------------------------------------------
\* C27. For an ERS with capacity > 0, after any sequence of harvest and
\* deploy calls with any requested amounts, the stored energy stays
\* within 0..capacity, so state_of_charge() always lies in [0, 1].
\* ------------------------------------------------------------------
C27_EnergyWithinCapacity ==
    (ers.on /\ FGt(ers.capacity, Zero)) =>
        /\ InUnitBand(Zero, ers.energy, ers.capacity)
        /\ InUnitBand(Zero, state_of_charge(ers), ONE)

\* ------------------------------------------------------------------
\* C28. The force margin and the status agree on whether the limit is
\* exceeded: for every valid state, every Fx, Fy and every
\* warning_threshold, stability_assessment returns status UNSTABLE
\* exactly when force_margin_N < 0.
\* ------------------------------------------------------------------
C28_MarginAgreesWithStatus ==
    (/\ last.op = "stability_assessment"
     /\ ValidState(last.state)
     /\ ~last.res.exc) =>
        ((last.res.status = "UNSTABLE") <=> FLt(last.res.force_margin_N, Zero))

\* ------------------------------------------------------------------
\* C29. The combined-slip check is never more permissive than the
\* ellipse check: for every valid state, every Fx, Fy and every
\* coupling_factor, the effective maxima do not exceed the nominal
\* maxima, so combined_slip_limit usage >= friction_ellipse_limit usage,
\* and combined within_limit = true implies ellipse within_limit = true.
\* ------------------------------------------------------------------
C29_CombinedNotMorePermissive ==
    (/\ last.op = "combined_slip_limit"
     /\ ValidState(last.state)
     /\ ~last.res.exc) =>
        LET ellipse_check == friction_ellipse_limit(EngineOn(last.state),
                                                    last.Fx, last.Fy)
        IN  ~ellipse_check.exc =>
              /\ FLe(last.res.Fx_max_effective, ellipse_check.Fx_max)
              /\ FLe(last.res.Fy_max_effective, ellipse_check.Fy_max)
              /\ FGe(last.res.usage, ellipse_check.usage)
              /\ last.res.within_limit => ellipse_check.within_limit


\* ------------------------------------------------------------------
\* C30. With warning_threshold >= 1, stability_assessment never returns
\* WARNING for any valid state and any forces: the status is STABLE
\* exactly when the ellipse check is within the limit, and UNSTABLE
\* otherwise.
\* ------------------------------------------------------------------
C30_NoWarningAtOrAboveOne ==
    (/\ last.op = "stability_assessment"
     /\ ValidState(last.state)
     /\ ~last.res.exc
     /\ FGe(last.warning_threshold, ONE)) =>
        LET ellipse_check == friction_ellipse_limit(EngineOn(last.state),
                                                    last.Fx, last.Fy)
        IN  /\ last.res.status # "WARNING"
            /\ (last.res.status = "STABLE") <=> ellipse_check.within_limit
            /\ (last.res.status = "UNSTABLE") <=> ~ellipse_check.within_limit

\* a force exactly on the ellipse, judged with a threshold of 1
C30_Witness ==
    /\ last.op = "stability_assessment"
    /\ ValidState(last.state)
    /\ ~last.res.exc
    /\ FGe(last.warning_threshold, ONE)
    /\ friction_ellipse_limit(EngineOn(last.state), last.Fx,
                              last.Fy).within_limit
    /\ last.res.ellipse_usage = ONE
    /\ last.res.status = "STABLE"

====
